---- MODULE Spec2Model ----
(***************************************************************************)
(* A model of ZoomVideoComposer (zoom_video_composer.py v0.2.3 and its     *)
(* helpers): the frame sampler (process_frame), the temp-directory hash    *)
(* and the frame renderer / scheduler of zoom_video_composer().            *)
(*                                                                         *)
(* Floating-point values are modelled as exact rationals <<num, den>>;     *)
(* the sine easings are transcendental and are left out of the model.      *)
(***************************************************************************)
EXTENDS Integers, Sequences, FiniteSets, TLC

VARIABLES
    job,        \* the arguments of zoom_video_composer() (a record)
    samples,    \* SamplerSpec: the results of process_frame for frames 0..k-1
    other_job,  \* HashSpec: the arguments of a second invocation
    hashes,     \* HashSpec: the tmp_dir_hash computed by each invocation
    pc,         \* Spec: where the main thread of zoom_video_composer() is
    exc,        \* Spec: the exception raised to the caller ("none" if none)
    images,     \* Spec: the list `images` (the names of the loaded files)
    fs,         \* Spec: the file system: directories and frame files
    futures,    \* Spec: the list `futures`, frame i at position i + 1
    run,        \* Spec: what the run has done so far (a record of flags)
    interrupt,  \* Spec: where KeyboardInterrupt was delivered ("none" if not)
    at_interrupt, \* Spec: futures and files as they were at the interrupt
    image_paths \* the list `image_paths` once the input paths are enumerated

runVars == <<pc, exc, images, fs, futures, run, interrupt, at_interrupt, image_paths>>
vars == <<job, samples, other_job, hashes, pc, exc, images, fs, futures, run,
          interrupt, at_interrupt, image_paths>>

----------------------------------------------------------------------------
(* Bounds of the model.                                                    *)

\* Largest number of usable input images.
MaxImages == 4
\* Frame rates 1..MaxFps are drawn by the sampler specification.
MaxFps == 3
\* Durations are k/2 seconds, k in 1..MaxHalfSeconds.
MaxHalfSeconds == 6

----------------------------------------------------------------------------
(* Exact rational arithmetic standing for Python floats.                   *)

Abs(n) == IF n < 0 THEN -n ELSE n

RECURSIVE Gcd(_, _)
Gcd(a, b) == IF b = 0 THEN a ELSE Gcd(b, a % b)

\* The rational n/d (d # 0) in lowest terms with a positive denominator.
Rat(n, d) ==
    LET g == Gcd(Abs(n), Abs(d))
        s == IF d < 0 THEN -1 ELSE 1
    IN  <<(s * n) \div g, (s * d) \div g>>

RInt(n) == <<n, 1>>
RAdd(a, b) == Rat(a[1] * b[2] + b[1] * a[2], a[2] * b[2])
RSub(a, b) == Rat(a[1] * b[2] - b[1] * a[2], a[2] * b[2])
RMul(a, b) == Rat(a[1] * b[1], a[2] * b[2])
RDiv(a, b) == Rat(a[1] * b[2], a[2] * b[1])
RLt(a, b) == a[1] * b[2] < b[1] * a[2]
RLe(a, b) == a[1] * b[2] <= b[1] * a[2]
RZero == RInt(0)
ROne == RInt(1)
RHalf == Rat(1, 2)

\* math.pow(x, k) / x ** k for a natural exponent k.
RECURSIVE RPow(_, _)
RPow(x, k) == IF k = 0 THEN ROne ELSE RMul(x, RPow(x, k - 1))

\* math.ceil
ceil(r) == -((-r[1]) \div r[2])

\* int(): truncation toward zero
int(r) == IF r[1] >= 0 THEN r[1] \div r[2] ELSE -((-r[1]) \div r[2])

----------------------------------------------------------------------------
(* Easing functions.                                                       *)

EasingNames ==
    {"linear", "easeInQuad", "easeOutQuad", "easeInOutQuad",
     "easeInCubic", "easeOutCubic", "easeInOutCubic"}

EASING_FUNCTIONS(name, x) ==
    CASE name = "linear" -> x
      [] name = "easeInQuad" -> RMul(x, x)
      [] name = "easeOutQuad" ->
            RSub(ROne, RMul(RSub(ROne, x), RSub(ROne, x)))
      [] name = "easeInOutQuad" ->
            IF RLt(x, RHalf)
            THEN RMul(RInt(2), RMul(x, x))
            ELSE RSub(ROne,
                      RDiv(RPow(RAdd(RMul(RInt(-2), x), RInt(2)), 2), RInt(2)))
      [] name = "easeInCubic" -> RMul(x, RMul(x, x))
      [] name = "easeOutCubic" -> RSub(ROne, RPow(RSub(ROne, x), 3))
      [] name = "easeInOutCubic" ->
            IF RLt(x, RHalf)
            THEN RMul(RInt(4), RMul(x, RMul(x, x)))
            ELSE RSub(ROne,
                      RDiv(RPow(RAdd(RMul(RInt(-2), x), RInt(2)), 3), RInt(2)))

----------------------------------------------------------------------------
(* The frame sampler.  A computation yields [exc, val]: exc is "none" or   *)
(* the name of the Python exception it raises.                             *)

Ok(v) == [exc |-> "none", val |-> v]
Raise(e) == [exc |-> e, val |-> RZero]

ProgressOverNumFrames(i, num_frames) ==
    IF num_frames = 0
    THEN Raise("ZeroDivisionError")
    ELSE Ok(Rat(i, num_frames))

\* i / (num_frames - 1): Python raises ZeroDivisionError on a zero divisor.
Progress(i, num_frames) ==
    IF num_frames - 1 = 0
    THEN Raise("ZeroDivisionError")
    ELSE Ok(Rat(i, num_frames - 1))

zoom_in_log_swapped(easing, i, num_frames, num_images) ==
    LET p == Progress(i, num_frames)
    IN  IF p.exc # "none" THEN p
        ELSE Ok(RMul(RSub(ROne, EASING_FUNCTIONS(easing, p.val)), RInt(num_images)))

zoom_in_log(easing, i, num_frames, num_images) ==
    LET p == Progress(i, num_frames)
    IN  IF p.exc # "none" THEN p
        ELSE Ok(RMul(EASING_FUNCTIONS(easing, p.val), RInt(num_images)))

zoom_out_log(easing, i, num_frames, num_images) ==
    LET p == Progress(i, num_frames)
    IN  IF p.exc # "none" THEN p
        ELSE Ok(RMul(RSub(ROne, EASING_FUNCTIONS(easing, p.val)), RInt(num_images)))

\* The variables process_frame closes over, set up before the frames are made:
\* num_images = len(images) - 1, num_frames = int(duration * fps),
\* num_frames_half = int(num_frames / 2).
NumFrames(j) == int(RMul(j.duration, RInt(j.fps)))

Closure(j, n_images) ==
    [direction |-> j.direction,
     easing |-> j.easing,
     zoom |-> j.zoom,
     n_images |-> n_images,
     num_images |-> n_images - 1,
     num_frames |-> NumFrames(j),
     num_frames_half |-> int(Rat(NumFrames(j), 2))]

\* current_zoom_log of process_frame(i): the direction dispatch.
CurrentZoomLog(c, i) ==
    CASE c.direction = "in" ->
            zoom_in_log(c.easing, i, c.num_frames, c.num_images)
      [] c.direction = "out" ->
            zoom_out_log(c.easing, i, c.num_frames, c.num_images)
      [] c.direction = "inout" ->
            IF i < c.num_frames_half
            THEN zoom_in_log(c.easing, i, c.num_frames_half, c.num_images)
            ELSE zoom_out_log(c.easing, i - c.num_frames_half,
                              c.num_frames_half, c.num_images)
      [] c.direction = "outin" ->
            IF i < c.num_frames_half
            THEN zoom_out_log(c.easing, i, c.num_frames_half, c.num_images)
            ELSE zoom_in_log(c.easing, i - c.num_frames_half,
                             c.num_frames_half, c.num_images)
      [] OTHER -> Raise("ValueError")

\* The progress i / (num_frames - 1) that process_frame(i) hands to the easing
\* function: over num_frames for "in" and "out", over num_frames_half with the
\* local index i or i - num_frames_half for "inout" and "outin".
FrameProgress(c, i) ==
    CASE c.direction \in {"in", "out"} -> Progress(i, c.num_frames)
      [] c.direction \in {"inout", "outin"} ->
            IF i < c.num_frames_half
            THEN Progress(i, c.num_frames_half)
            ELSE Progress(i - c.num_frames_half, c.num_frames_half)
      [] OTHER -> Raise("ValueError")

\* The exponent of local_zoom = zoom ** (current_zoom_log - current_image_idx + 1)
LocalZoomExponentNoShift(L, current_image_idx) ==
    RSub(L, RInt(current_image_idx))

LocalZoomExponent(L, current_image_idx) ==
    RAdd(RSub(L, RInt(current_image_idx)), ROne)

\* images[k] on a Python list of length n: negative k counts from the end.
ListIndex(k, n) ==
    IF k >= 0 /\ k < n THEN [exc |-> "none", at |-> k]
    ELSE IF k < 0 /\ k >= -n THEN [exc |-> "none", at |-> k + n]
    ELSE [exc |-> "IndexError", at |-> 0]

\* process_frame(i) up to the choice of the frame: the zoom position, the
\* layer index, the local zoom (the power zoom ** exponent, kept symbolic),
\* the list position read and whether zoom_crop is applied.
process_frame(c, i) ==
    LET zl == CurrentZoomLog(c, i)
    IN  IF zl.exc # "none"
        THEN [i |-> i, exc |-> zl.exc, L |-> RZero, current_image_idx |-> 0,
              local_zoom |-> [base |-> c.zoom, exp |-> RZero],
              layer |-> 0, cropped |-> FALSE]
        ELSE
        LET L == zl.val
            current_image_idx == ceil(L)
            local_zoom == [base |-> c.zoom,
                           exp |-> LocalZoomExponent(L, current_image_idx)]
            at == IF L = RZero THEN ListIndex(0, c.n_images)
                  ELSE ListIndex(current_image_idx, c.n_images)
        IN  [i |-> i, exc |-> at.exc, L |-> L,
             current_image_idx |-> current_image_idx,
             local_zoom |-> local_zoom, layer |-> at.at, cropped |-> L # RZero]

\* Whether process_frame(i) got as far as computing current_zoom_log,
\* current_image_idx and local_zoom (lines 393-394).
Sampled(s) == s.exc \in {"none", "IndexError"}

\* Comparisons of a power base ** exp (base > 0) with base ** k, k an integer:
\* x |-> base ** x is increasing for base > 1, constant for base = 1 and
\* decreasing for base < 1.
PowLtPow(p, k) ==
    IF RLt(ROne, p.base) THEN RLt(p.exp, RInt(k))
    ELSE IF p.base = ROne THEN FALSE
    ELSE RLt(RInt(k), p.exp)

PowLePow(p, k) == PowLtPow(p, k) \/ p.exp = RInt(k) \/ p.base = ROne

\* The renderer's variables in the specifications that do not run it.
NoRun ==
    /\ pc = "idle"
    /\ exc = "none"
    /\ images = <<>>
    /\ fs = [dirs |-> {}, files |-> <<>>]
    /\ futures = <<>>
    /\ run = <<>>
    /\ interrupt = "none"
    /\ at_interrupt = <<>>
    /\ image_paths = <<>>

----------------------------------------------------------------------------
(* SamplerSpec: process_frame applied to the frames 0, 1, ... of a job.    *)

Directions == {"in", "out", "inout", "outin"}
Zooms == {Rat(3, 2), RInt(2)}

SamplerJobs ==
    [direction : Directions,
     easing : EasingNames,
     zoom : Zooms,
     duration : {Rat(k, 2) : k \in 1..MaxHalfSeconds},
     fps : 1..MaxFps,
     n_images : 2..MaxImages]

SamplerInit ==
    /\ job \in SamplerJobs
    /\ samples = <<>>
    /\ other_job = <<>>
    /\ hashes = <<>>
    /\ NoRun

SamplerClosure == Closure(job, job.n_images)

\* The sampler is run on the next frame index.
SampleFrame ==
    /\ Len(samples) < NumFrames(job)
    /\ samples' = Append(samples, process_frame(SamplerClosure, Len(samples)))
    /\ UNCHANGED <<job, other_job, hashes, runVars>>

SamplerNext == SampleFrame

SamplerSpec == SamplerInit /\ [][SamplerNext]_vars

\* The frame indices sampled so far, as positions of samples (frame i is at i + 1).
SampledFrames == 1..Len(samples)
AllSampled == Len(samples) = NumFrames(job)
LayerIndexOf(k) == samples[k].current_image_idx

\* C1: for every valid input (N >= 2, F >= 1, the four directions, every
\* easing) the sampler computes for every frame a layer_index, without an
\* arithmetic failure, that lies in [0, N-1].
C1_LayerIndexInRange ==
    \A k \in SampledFrames :
        /\ samples[k].exc # "ZeroDivisionError"
        /\ LayerIndexOf(k) \in 0..(job.n_images - 1)

\* C2 as stated: every local_zoom the sampler computes lies in
\* (1/zoom_ratio, 1].
C2_LocalZoomBelowOne ==
    \A k \in SampledFrames :
        Sampled(samples[k]) =>
            /\ ~PowLePow(samples[k].local_zoom, -1)
            /\ PowLePow(samples[k].local_zoom, 0)

\* C2 amended: every local_zoom the sampler computes lies in (1, zoom_ratio].
C2_LocalZoomAboveOne ==
    \A k \in SampledFrames :
        Sampled(samples[k]) =>
            /\ ~PowLePow(samples[k].local_zoom, 0)
            /\ PowLePow(samples[k].local_zoom, 1)

\* A job whose frames have all been sampled, with a local_zoom strictly
\* inside the interval and one at its closed end.
C2_Witness ==
    /\ AllSampled
    /\ \E k \in SampledFrames :
          /\ Sampled(samples[k])
          /\ PowLtPow(samples[k].local_zoom, 1)
    /\ \E k \in SampledFrames :
          /\ Sampled(samples[k])
          /\ samples[k].local_zoom.exp = ROne
          /\ samples[k].cropped

\* C9: for direction "in" layer_index is non-decreasing in the frame index,
\* for direction "out" it is non-increasing.
C9_LayerIndexMonotone ==
    \A k1, k2 \in SampledFrames :
        k1 < k2 =>
            /\ job.direction = "in" =>
                  /\ Sampled(samples[k1]) /\ Sampled(samples[k2])
                  /\ LayerIndexOf(k1) <= LayerIndexOf(k2)
            /\ job.direction = "out" =>
                  /\ Sampled(samples[k1]) /\ Sampled(samples[k2])
                  /\ LayerIndexOf(k1) >= LayerIndexOf(k2)

\* A fully sampled "in" job that climbs from layer 0 to the last layer
\* through an intermediate layer.
C9_Witness ==
    /\ job.direction = "in"
    /\ job.n_images >= 3
    /\ AllSampled
    /\ Len(samples) >= 3
    /\ LayerIndexOf(1) = 0
    /\ LayerIndexOf(Len(samples)) = job.n_images - 1
    /\ \E k \in SampledFrames : LayerIndexOf(k) \notin {0, job.n_images - 1}

NonDecreasing(lo, hi) ==
    \A k1, k2 \in lo..hi : k1 <= k2 => LayerIndexOf(k1) <= LayerIndexOf(k2)
NonIncreasing(lo, hi) ==
    \A k1, k2 \in lo..hi : k1 <= k2 => LayerIndexOf(k1) >= LayerIndexOf(k2)

\* C10: for "inout" and "outin" and every frame count, the layer_index
\* sequence is unimodal (rising then falling for inout, mirrored for outin)
\* with the extremum (layer N-1 for inout, layer 0 for outin) at the frames
\* adjacent to i = F/2.
C10_Unimodal ==
    (job.direction \in {"inout", "outin"} /\ AllSampled /\ Len(samples) >= 1) =>
        LET F == Len(samples)
            H == SamplerClosure.num_frames_half
            \* the frames H-1, H, H+1 as positions of samples
            Middle == {H, H + 1, H + 2} \cap SampledFrames
        IN  /\ \A k \in SampledFrames : samples[k].exc = "none"
            /\ job.direction = "inout" =>
                  /\ \E p \in SampledFrames :
                        NonDecreasing(1, p) /\ NonIncreasing(p, F)
                  /\ \E k \in Middle : LayerIndexOf(k) = job.n_images - 1
                  /\ \A k \in SampledFrames : LayerIndexOf(k) <= job.n_images - 1
            /\ job.direction = "outin" =>
                  /\ \E p \in SampledFrames :
                        NonIncreasing(1, p) /\ NonDecreasing(p, F)
                  /\ \E k \in Middle : LayerIndexOf(k) = 0
                  /\ \A k \in SampledFrames : LayerIndexOf(k) >= 0

\* C11 as stated: for direction "in" with F >= 2, frame 0 has L == 0.0 and is
\* rendered from pyramid layer 0 with no zoom-crop, and frame F-1 is rendered
\* from the last pyramid layer (index N-1) with local_zoom equal to 1.0.
C11_LastFrameZoomOne ==
    (job.direction = "in" /\ NumFrames(job) >= 2) =>
        /\ Len(samples) >= 1 =>
              /\ samples[1].exc = "none"
              /\ samples[1].L = RZero
              /\ samples[1].layer = 0
              /\ ~samples[1].cropped
        /\ AllSampled =>
              LET last == samples[Len(samples)]
              IN  /\ last.exc = "none"
                  /\ last.current_image_idx = job.n_images - 1
                  /\ last.layer = job.n_images - 1
                  /\ last.cropped
                  /\ PowLePow(last.local_zoom, 0)
                  /\ ~PowLtPow(last.local_zoom, 0)

\* C11 amended: the same, with local_zoom of frame F-1 equal to zoom_ratio.
C11_LastFrameZoomRatio ==
    (job.direction = "in" /\ NumFrames(job) >= 2) =>
        /\ Len(samples) >= 1 =>
              /\ samples[1].exc = "none"
              /\ samples[1].L = RZero
              /\ samples[1].layer = 0
              /\ ~samples[1].cropped
        /\ AllSampled =>
              LET last == samples[Len(samples)]
              IN  /\ last.exc = "none"
                  /\ last.current_image_idx = job.n_images - 1
                  /\ last.layer = job.n_images - 1
                  /\ last.cropped
                  /\ PowLePow(last.local_zoom, 1)
                  /\ ~PowLtPow(last.local_zoom, 1)

\* A fully sampled "in" job of three frames or more over three images or more,
\* under a non-linear easing.
C11_Witness ==
    /\ job.direction = "in"
    /\ job.easing = "easeInOutCubic"
    /\ job.n_images >= 3
    /\ NumFrames(job) >= 3
    /\ AllSampled
    /\ samples[1].L = RZero
    /\ samples[Len(samples)].L = RInt(job.n_images - 1)

\* C20: for "inout" (and, mirrored, "outin") with H = F div 2, every frame
\* i >= H is sampled with a local progress that lies in [0, 1], and the last
\* frame i = F - 1 has progress exactly 1, so that L = 0 for "inout" (L = N - 1
\* for "outin").
C20_SecondHalfReparametrized ==
    job.direction \in {"inout", "outin"} =>
        \A k \in SampledFrames :
            LET i == k - 1
                F == NumFrames(job)
                H == F \div 2
                progress == FrameProgress(SamplerClosure, i)
            IN  i >= H =>
                    /\ progress.exc = "none"
                    /\ samples[k].exc = "none"
                    /\ RLe(RZero, progress.val) /\ RLe(progress.val, ROne)
                    /\ i = F - 1 =>
                          /\ progress.val = ROne
                          /\ samples[k].L = IF job.direction = "inout"
                                            THEN RZero
                                            ELSE RInt(job.n_images - 1)

----------------------------------------------------------------------------
(* HashSpec: the temp-directory path of two invocations over the same      *)
(* resolved image path list.                                               *)

\* "".join(image_paths)
RECURSIVE Join(_)
Join(paths) == IF paths = <<>> THEN "" ELSE Head(paths) \o Join(Tail(paths))

\* md5(...).hexdigest(), idealised as a collision-free digest of its input.
Md5Hex(text) == "md5<" \o text \o ">"

\* os.path.join(a, b)
PathJoin(a, b) == a \o "/" \o b

\* tmp_dir_hash of the command-line program: the digest of the image paths.
tmp_dir_hash(j) == PathJoin(j.tmp_dir, Md5Hex(Join(j.image_paths)))

\* tmp_dir_hash of the web-form program: the digest of the output file name.
tmp_dir_hash_ui(j) == PathJoin(j.tmp_dir, Md5Hex(j.output))

TmpDirHashOf(j) ==
    IF j.program = "ui" THEN tmp_dir_hash_ui(j) ELSE tmp_dir_hash(j)

\* The render parameters of an invocation.
RenderParams(j) ==
    <<j.zoom, j.duration, j.fps, j.easing, j.direction, j.width, j.height,
      j.margin, j.resampling, j.reverse_images>>

HashJobs ==
    [program : {"cli", "ui"},
     image_paths : {<<"a.png", "b.png">>, <<"a.png", "b.png", "c.jpg">>},
     tmp_dir : {"tmp"},
     output : {"output.mp4"},
     zoom : Zooms,
     duration : {RInt(1)},
     fps : 1..2,
     easing : {"linear"},
     direction : {"in", "out"},
     width : {ROne},
     height : {ROne},
     margin : {Rat(1, 20)},
     resampling : {"lanczos"},
     reverse_images : {FALSE}]

\* The invocations that differ from j in one render parameter.  The web-form
\* program takes no width, height or margin: it fixes them itself.
ChangeOne(j) ==
    {[j EXCEPT !.zoom = v] : v \in Zooms \ {j.zoom}}
    \cup {[j EXCEPT !.duration = RInt(2)]}
    \cup {[j EXCEPT !.fps = j.fps + 1]}
    \cup {[j EXCEPT !.easing = "easeInQuad"]}
    \cup {[j EXCEPT !.direction = v] : v \in Directions \ {j.direction}}
    \cup {[j EXCEPT !.resampling = "nearest"]}
    \cup {[j EXCEPT !.reverse_images = TRUE]}
    \cup (IF j.program = "ui" THEN {}
          ELSE {[j EXCEPT !.width = RHalf],
                [j EXCEPT !.height = RHalf],
                [j EXCEPT !.margin = Rat(1, 10)]})

HashInit ==
    /\ job \in HashJobs
    /\ other_job \in {job} \cup ChangeOne(job)
    /\ hashes = [first |-> "", second |-> ""]
    /\ samples = <<>>
    /\ NoRun

\* The first invocation computes its temp directory.
HashFirst ==
    /\ hashes.first = ""
    /\ hashes' = [hashes EXCEPT !.first = TmpDirHashOf(job)]
    /\ UNCHANGED <<job, other_job, samples, runVars>>

\* The second invocation computes its temp directory.
HashSecond ==
    /\ hashes.second = ""
    /\ hashes' = [hashes EXCEPT !.second = TmpDirHashOf(other_job)]
    /\ UNCHANGED <<job, other_job, samples, runVars>>

HashNext == HashFirst \/ HashSecond

HashSpec == HashInit /\ [][HashNext]_vars

\* C4: for a fixed resolved image path list, two parameter sets that differ
\* in at least one render parameter are mapped to different temp-directory
\* paths.
C4_DistinctParamsDistinctDirs ==
    (/\ hashes.first # ""
     /\ hashes.second # ""
     /\ job.image_paths = other_job.image_paths
     /\ RenderParams(job) # RenderParams(other_job))
        => hashes.first # hashes.second

----------------------------------------------------------------------------
(* Spec: one call of zoom_video_composer() (the command-line program):     *)
(* reading the images, the checks, the temp directory, the pyramid, the    *)
(* thread pool that renders the frames, the video and the clean-up.        *)

\* The runs of Spec last k/2 seconds, k in 0..MaxRunHalfSeconds, at 2 frames
\* per second.
MaxRunHalfSeconds == 4
\* Thread counts -1..MaxThreads.
MaxThreads == 1
\* An earlier run may have left the frames 0..MaxEarlierFrames-1, or some of them.
MaxEarlierFrames == 1

\* The paths of the model: four files, the directory "frames" with three
\* files in it, and "pipe", a path that is neither a file nor a directory.
IsFile(path) == path \in {"a.png", "notes.txt", "B.JPG", "c.webp"}
IsDir(path) == path = "frames"
Children == {"1.png", "2.png", "10.png"}

\* The code points of the names in the directory.
CodePoints(name) ==
    CASE name = "1.png" -> <<49, 46, 112, 110, 103>>
      [] name = "2.png" -> <<50, 46, 112, 110, 103>>
      [] name = "10.png" -> <<49, 48, 46, 112, 110, 103>>

\* a < b on Python strings: the order of the first code point that differs.
RECURSIVE SeqLess(_, _)
SeqLess(a, b) ==
    IF b = <<>> THEN FALSE
    ELSE IF a = <<>> THEN TRUE
    ELSE IF Head(a) # Head(b) THEN Head(a) < Head(b)
    ELSE SeqLess(Tail(a), Tail(b))

StrLess(a, b) == SeqLess(CodePoints(a), CodePoints(b))

RECURSIVE Insert(_, _)
Insert(x, seq) ==
    IF seq = <<>> THEN <<x>>
    ELSE IF StrLess(x, Head(seq)) THEN <<x>> \o seq
    ELSE <<Head(seq)>> \o Insert(x, Tail(seq))

\* sorted(os.listdir(path))
RECURSIVE sorted(_)
sorted(seq) == IF seq = <<>> THEN <<>> ELSE Insert(Head(seq), sorted(Tail(seq)))

\* os.path.join(path, subpath) for every subpath
JoinEach(path, subpaths) == [k \in 1..Len(subpaths) |-> PathJoin(path, subpaths[k])]

\* Lines 263-270 of zoom_video_composer: a file contributes itself, a directory
\* its sorted children, any other path nothing.
RECURSIVE ResolveImagePaths(_, _)
ResolveImagePaths(paths, listdir) ==
    IF paths = <<>> THEN <<>>
    ELSE LET path == Head(paths)
             rest == ResolveImagePaths(Tail(paths), listdir)
         IN  IF IsFile(path) THEN <<path>> \o rest
             ELSE IF IsDir(path) THEN JoinEach(path, sorted(listdir)) \o rest
             ELSE rest

\* helpers.get_image_paths, for inputs that are path strings: as above, but any
\* other path raises ValueError.
RECURSIVE get_image_paths(_, _)
get_image_paths(paths, listdir) ==
    IF paths = <<>> THEN [exc |-> "none", val |-> <<>>]
    ELSE LET path == Head(paths)
         IN  IF ~IsFile(path) /\ ~IsDir(path)
             THEN [exc |-> "ValueError", val |-> <<>>]
             ELSE LET rest == get_image_paths(Tail(paths), listdir)
                      own == IF IsFile(path) THEN <<path>>
                             ELSE JoinEach(path, sorted(listdir))
                  IN  IF rest.exc # "none" THEN rest
                      ELSE [exc |-> "none", val |-> own \o rest.val]

\* image_path.lower(), for the file names of the model.
LowerPath(path) ==
    CASE path = "B.JPG" -> "b.jpg"
      [] OTHER -> path

\* str.endswith((".png", ".jpg", ".jpeg", ".webp")), for the file names of the model.
HasImageSuffix(path) ==
    path \in {"a.png", "b.jpg", "c.webp",
              "frames/1.png", "frames/2.png", "frames/10.png"}

\* The loop that fills `images`: files of another type are skipped.
RECURSIVE ReadImageList(_)
ReadImageList(paths) ==
    IF paths = <<>> THEN <<>>
    ELSE IF ~HasImageSuffix(LowerPath(Head(paths)))
         THEN ReadImageList(Tail(paths))
         ELSE <<Head(paths)>> \o ReadImageList(Tail(paths))

RESAMPLING_FUNCTIONS ==
    {"nearest", "box", "bilinear", "hamming", "bicubic", "lanczos"}

\* str(d) for a digit d.
Digit(d) ==
    CASE d = 0 -> "0" [] d = 1 -> "1" [] d = 2 -> "2" [] d = 3 -> "3"
      [] d = 4 -> "4" [] d = 5 -> "5" [] d = 6 -> "6" [] d = 7 -> "7"
      [] d = 8 -> "8" [] d = 9 -> "9"

\* The decimal digits of n >= 0, padded with zeros on the left to `width`.
RECURSIVE ZeroPadded(_, _)
ZeroPadded(n, width) ==
    IF n < 10
    THEN (IF width > 1 THEN ZeroPadded(0, width - 1) ELSE "") \o Digit(n)
    ELSE ZeroPadded(n \div 10, width - 1) \o Digit(n % 10)

FrameNameUnpadded(i) == ZeroPadded(i, 1) \o ".png"

\* f"{i:06d}.png"
FrameName(i) == ZeroPadded(i, 6) \o ".png"

\* os.path.join(tmp_dir_hash, f"{i:06d}.png"), kept as <<directory, name>>.
FramePath(j, i) == <<tmp_dir_hash(j), FrameName(i)>>

\* n_jobs = threads if threads > 0 else cpu_count() - threads
n_jobs(j) == IF j.threads > 0 THEN j.threads ELSE j.cpu_count - j.threads

RunJobs ==
    [program : {"cli"},
     image_paths : {<<"a.png", "notes.txt">>,
                    <<"a.png", "notes.txt", "B.JPG", "c.webp">>},
     tmp_dir : {"tmp"},
     direction : Directions \cup {"sideways"},
     easing : {"linear", "easeInBounce"},
     resampling : {"lanczos", "spline"},
     zoom : {RInt(2)},
     duration : {Rat(k, 2) : k \in 0..MaxRunHalfSeconds},
     fps : {2},
     listdir : {<<>>},
     threads : (-1)..MaxThreads,
     cpu_count : {2},
     keep_frames : BOOLEAN,
     skip_video_generation : BOOLEAN]

\* A frame file an earlier run left behind.
EarlierFile == [state |-> "complete", by |-> "earlier"]

\* The file system zoom_video_composer() may find: no temp directory, or the
\* job's directory with frames of an earlier run in it.
EarlierFileSystems(j) ==
    {[dirs |-> {}, files |-> <<>>]}
    \cup {[dirs |-> {j.tmp_dir, tmp_dir_hash(j)},
           files |-> [f \in {FramePath(j, i) : i \in E} |-> EarlierFile]] :
          E \in SUBSET (0..(MaxEarlierFrames - 1))}

Init ==
    /\ job \in RunJobs
    /\ samples = <<>>
    /\ other_job = <<>>
    /\ hashes = <<>>
    /\ pc = "paths"
    /\ exc = "none"
    /\ images = <<>>
    /\ fs \in EarlierFileSystems(job)
    /\ futures = <<>>
    /\ run = [made_tmp_dir |-> FALSE, pyramid_built |-> FALSE, max_workers |-> 0,
              video_invoked |-> FALSE, cleaned |-> FALSE]
    /\ interrupt = "none"
    /\ at_interrupt = <<>>
    /\ image_paths = <<>>

notRun == <<job, samples, other_job, hashes>>

\* Lines 262-270 (helpers.get_image_paths in the program built on helpers.py):
\* the input paths are enumerated into the list image_paths.
EnumeratePaths ==
    /\ pc = "paths"
    /\ LET resolved == IF job.program = "helpers"
                       THEN get_image_paths(job.image_paths, job.listdir)
                       ELSE [exc |-> "none",
                             val |-> ResolveImagePaths(job.image_paths, job.listdir)]
       IN  IF resolved.exc # "none"
           THEN pc' = "raised" /\ exc' = "ValueError: path" /\ image_paths' = image_paths
           ELSE pc' = "read" /\ exc' = exc /\ image_paths' = resolved.val
    /\ UNCHANGED <<notRun, images, fs, futures, run, interrupt, at_interrupt>>

\* Lines 272-283: the images are read; fewer than two is an error.
ReadImages ==
    /\ pc = "read"
    /\ LET read == ReadImageList(image_paths)
       IN  /\ images' = read
           /\ IF Len(read) < 2
              THEN pc' = "raised" /\ exc' = "ValueError: images"
              ELSE pc' = "setup" /\ exc' = exc
    /\ UNCHANGED <<notRun, image_paths, fs, futures, run, interrupt, at_interrupt>>

\* Lines 285-305: the easing and resampling names are looked up.
Setup ==
    /\ pc = "setup"
    /\ IF job.easing \notin EasingNames
       THEN pc' = "raised" /\ exc' = "ValueError: easing"
       ELSE IF job.resampling \notin RESAMPLING_FUNCTIONS
       THEN pc' = "raised" /\ exc' = "ValueError: resampling"
       ELSE pc' = "mktmp" /\ exc' = exc
    /\ UNCHANGED <<notRun, image_paths, images, fs, futures, run, interrupt, at_interrupt>>

\* Lines 307-310: the temp directory is made unless it exists.
CreateTmpDir ==
    /\ pc = "mktmp"
    /\ IF tmp_dir_hash(job) \notin fs.dirs
       THEN /\ fs' = [fs EXCEPT !.dirs = @ \cup {job.tmp_dir, tmp_dir_hash(job)}]
            /\ run' = [run EXCEPT !.made_tmp_dir = TRUE]
       ELSE UNCHANGED <<fs, run>>
    /\ pc' = "blend"
    /\ UNCHANGED <<notRun, image_paths, exc, images, futures, interrupt, at_interrupt>>

\* Lines 312-364: the images are ordered and the pyramid is built.
BlendImages ==
    /\ pc = "blend"
    /\ run' = [run EXCEPT !.pyramid_built = TRUE]
    /\ pc' = "pool"
    /\ UNCHANGED <<notRun, image_paths, exc, images, fs, futures, interrupt, at_interrupt>>

\* Lines 407-410: the thread pool is made with n_jobs workers.
CreateExecutor ==
    /\ pc = "pool"
    /\ run' = [run EXCEPT !.max_workers = n_jobs(job)]
    /\ pc' = "submit"
    /\ UNCHANGED <<notRun, image_paths, exc, images, fs, futures, interrupt, at_interrupt>>

Future(state, e) == [state |-> state, exc |-> e]
Pending == Future("pending", "none")
StatesOf(fut, states) == {k \in DOMAIN fut : fut[k].state \in states}
\* The futures that may still run: queued, or on a worker thread.
Live(fut) == StatesOf(fut, {"pending", "running", "saving"})

\* Line 411: executor.submit(process_frame, i) for the next i of range(num_frames).
SubmitFrame ==
    /\ pc = "submit"
    /\ Len(futures) < NumFrames(job)
    /\ futures' = Append(futures, Pending)
    /\ UNCHANGED <<notRun, image_paths, pc, exc, images, fs, run, interrupt, at_interrupt>>

\* Lines 412-413: all frames are submitted; the main thread waits in as_completed.
StartWaiting ==
    /\ pc = "submit"
    /\ Len(futures) = NumFrames(job)
    /\ pc' = "wait"
    /\ UNCHANGED <<notRun, image_paths, exc, images, fs, futures, run, interrupt, at_interrupt>>

\* A worker thread takes the oldest queued frame and runs process_frame up to
\* frame.resize; an exception ends the task and is kept in its future.
StartTask(k) ==
    /\ k \in DOMAIN futures
    /\ futures[k].state = "pending"
    /\ \A k2 \in StatesOf(futures, {"pending"}) : k <= k2
    /\ Cardinality(StatesOf(futures, {"running", "saving"})) < run.max_workers
    /\ LET s == process_frame(Closure(job, Len(images)), k - 1)
       IN  futures' = [futures EXCEPT ![k] =
                          IF s.exc = "none" THEN Future("running", "none")
                          ELSE Future("failed", s.exc)]
    /\ UNCHANGED <<notRun, image_paths, pc, exc, images, fs, run, interrupt, at_interrupt>>

\* Line 405, frame.save(frame_path): the file is opened for writing.
OpenFrameFile(k) ==
    /\ k \in DOMAIN futures
    /\ futures[k].state = "running"
    /\ futures' = [futures EXCEPT ![k] = Future("saving", "none")]
    /\ LET path == FramePath(job, k - 1)
           file == [state |-> "partial", by |-> "run"]
       IN  fs' = [fs EXCEPT !.files =
                     [f \in DOMAIN fs.files \cup {path} |->
                         IF f = path THEN file ELSE fs.files[f]]]
    /\ UNCHANGED <<notRun, image_paths, pc, exc, images, run, interrupt, at_interrupt>>

\* Line 405, frame.save(frame_path): the file is written and closed.
CloseFrameFile(k) ==
    /\ k \in DOMAIN futures
    /\ futures[k].state = "saving"
    /\ futures' = [futures EXCEPT ![k] = Future("finished", "none")]
    /\ fs' = [fs EXCEPT !.files[FramePath(job, k - 1)].state = "complete"]
    /\ UNCHANGED <<notRun, image_paths, pc, exc, images, run, interrupt, at_interrupt>>

AsCompletedFirst(fut) == Live(fut) # DOMAIN fut

\* as_completed(futures) is exhausted, and the with block's shutdown(wait=True)
\* returns, when every future is done: finished, failed or cancelled.
AsCompleted(fut) == Live(fut) = {}

\* Lines 413-414 and the exit of the with block: every future is done.
AllCompleted ==
    /\ pc = "wait"
    /\ AsCompleted(futures)
    /\ pc' = "video"
    /\ UNCHANGED <<notRun, image_paths, exc, images, fs, futures, run, interrupt, at_interrupt>>

CancelFuturesNoCancel(fut) == fut

\* executor.shutdown(wait=False, cancel_futures=True): the queued futures are
\* cancelled, the running ones are left alone.
CancelFutures(fut) ==
    [k \in DOMAIN fut |->
        IF fut[k].state = "pending" THEN Future("cancelled", "none") ELSE fut[k]]

\* Lines 415-416: KeyboardInterrupt reaches the main thread in as_completed and
\* the handler shuts the executor down.
InterruptWaiting ==
    /\ pc = "wait"
    /\ interrupt = "none"
    /\ interrupt' = "wait"
    /\ at_interrupt' = [futures |-> futures, files |-> fs.files]
    /\ futures' = CancelFutures(futures)
    /\ pc' = "exit_with"
    /\ UNCHANGED <<notRun, image_paths, exc, images, fs, run>>

\* Line 411: KeyboardInterrupt reaches the main thread while it submits, outside
\* the try block; nothing is cancelled.
InterruptSubmitting ==
    /\ pc = "submit"
    /\ interrupt = "none"
    /\ interrupt' = "submit"
    /\ pc' = "exit_with"
    /\ UNCHANGED <<notRun, image_paths, exc, images, fs, futures, run, at_interrupt>>

JoinedNoWait(fut) == TRUE

\* ThreadPoolExecutor.__exit__ is shutdown(wait=True): it returns when the
\* worker threads have ended, that is when no future is queued or running.
Joined(fut) == Live(fut) = {}

\* Line 417 and the exit of the with block: the interrupt is raised to the caller.
ExitWith ==
    /\ pc = "exit_with"
    /\ Joined(futures)
    /\ pc' = "raised"
    /\ exc' = "KeyboardInterrupt"
    /\ UNCHANGED <<notRun, image_paths, images, fs, futures, run, interrupt, at_interrupt>>

\* Lines 419-435: the video is written from the frame files.
WriteVideo ==
    /\ pc = "video"
    /\ run' = [run EXCEPT !.video_invoked = TRUE]
    /\ pc' = "cleanup"
    /\ UNCHANGED <<notRun, image_paths, exc, images, fs, futures, interrupt, at_interrupt>>

\* shutil.rmtree(tmp_dir_hash), then os.rmdir(tmp_dir) (it holds nothing else here).
RemoveTmpDir(f, j) ==
    [dirs |-> f.dirs \ {tmp_dir_hash(j), j.tmp_dir},
     files |-> [p \in {q \in DOMAIN f.files : q[1] # tmp_dir_hash(j)} |-> f.files[p]]]

\* Lines 437-444: the temp directory is removed unless the frames are kept.
Cleanup ==
    /\ pc = "cleanup"
    /\ IF ~job.keep_frames /\ ~job.skip_video_generation
       THEN /\ fs' = RemoveTmpDir(fs, job)
            /\ run' = [run EXCEPT !.cleaned = TRUE]
       ELSE UNCHANGED <<fs, run>>
    /\ pc' = "done"
    /\ UNCHANGED <<notRun, image_paths, exc, images, futures, interrupt, at_interrupt>>

Next ==
    \/ EnumeratePaths
    \/ ReadImages
    \/ Setup
    \/ CreateTmpDir
    \/ BlendImages
    \/ CreateExecutor
    \/ SubmitFrame
    \/ StartWaiting
    \/ \E k \in DOMAIN futures : StartTask(k)
    \/ \E k \in DOMAIN futures : OpenFrameFile(k)
    \/ \E k \in DOMAIN futures : CloseFrameFile(k)
    \/ AllCompleted
    \/ InterruptWaiting
    \/ InterruptSubmitting
    \/ ExitWith
    \/ WriteVideo
    \/ Cleanup

Spec == Init /\ [][Next]_vars

----------------------------------------------------------------------------
(* The claims about the renderer, checked under Spec.                      *)

JobDir == tmp_dir_hash(job)
\* The frame files this run has opened for writing.
RunFiles == {f \in DOMAIN fs.files : fs.files[f].by = "run"}
FailedTasks == StatesOf(futures, {"failed"})

\* Frame i lies in the run of frame files 0, 1, ... an earlier run left in the
\* job's directory and that this run has not touched.
InEarlierPrefix(i) ==
    \A i2 \in 0..i :
        /\ FramePath(job, i2) \in DOMAIN fs.files
        /\ fs.files[FramePath(job, i2)] = EarlierFile

\* C3: the renderer does not submit a task for, and does not rewrite, any
\* frame of the contiguous run of frame files 000000.png, 000001.png, ...
\* that exists in the job's temp directory before scheduling.
C3_ResumeSkipsExistingPrefix ==
    \A i \in 0..(NumFrames(job) - 1) :
        InEarlierPrefix(i) => (i + 1) \notin DOMAIN futures

\* F = int(duration * fps), stated without int(): F <= duration * fps < F + 1.
ExpectedNumFrames ==
    CHOOSE n \in 0..(job.duration[1] * job.fps) :
        /\ n * job.duration[2] <= job.duration[1] * job.fps
        /\ job.duration[1] * job.fps < (n + 1) * job.duration[2]

\* The frame files 000000.png .. of the job's directory, for n <= 10 frames.
ExpectedFrameFiles(n) ==
    {<<JobDir, "00000" \o Digit(i) \o ".png">> : i \in 0..(n - 1)}

\* C12: the worker pool has exactly `threads` workers when the configured
\* thread count is > 0, and (number of hardware threads) minus (absolute value
\* of the configured count) workers when it is <= 0.
C12_PoolSize ==
    run.max_workers # 0 =>
        run.max_workers = IF job.threads > 0
                          THEN job.threads
                          ELSE job.cpu_count - Abs(job.threads)

\* C16: with skip_video_generation set the video is never written and the
\* temp directory with the rendered frames is kept; with neither keep_frames
\* nor skip_video_generation set, the job's temp directory is deleted after
\* the video has been written.
C16_SkipVideoGeneration ==
    /\ job.skip_video_generation =>
          /\ ~run.video_invoked
          /\ pc = "done" =>
                /\ JobDir \in fs.dirs
                /\ RunFiles # {} => \A f \in RunFiles : f \in DOMAIN fs.files
    /\ (pc = "done" /\ ~job.keep_frames /\ ~job.skip_video_generation) =>
          /\ run.video_invoked
          /\ JobDir \notin fs.dirs

\* C24: the video is never written while a frame task is pending or running:
\* the main thread is past the rendering block only when all F submitted
\* tasks have reached a terminal state.
C24_VideoAfterAllTasks ==
    (pc \in {"video", "cleanup", "done"} \/ run.video_invoked) =>
        /\ Len(futures) = ExpectedNumFrames
        /\ \A k \in DOMAIN futures :
              futures[k].state \in {"finished", "failed", "cancelled"}

\* The video is written after three frames or more were rendered by two
\* workers or more.
C24_Witness ==
    /\ run.video_invoked
    /\ run.max_workers >= 2
    /\ Len(futures) >= 3
    /\ \A k \in DOMAIN futures : futures[k].state = "finished"

\* C25: when a frame task fails with an exception the failure is raised to
\* the caller and the video is not written: the video is written only when
\* every frame file 0..F-1 has been completely written by this run.
C25_TaskFailureSurfaced ==
    /\ FailedTasks # {} => (~run.video_invoked /\ pc # "done")
    /\ pc = "cleanup" =>
          \A f \in ExpectedFrameFiles(ExpectedNumFrames) :
              /\ f \in DOMAIN fs.files
              /\ fs.files[f] = [state |-> "complete", by |-> "run"]

\* C5: a run that is not interrupted and in which no frame task fails has
\* written, when the rendering block is left, exactly the F = int(duration *
\* fps) frame files 000000.png .. of the job's temp directory, each of them
\* complete; and no run ever writes a frame file other than these.
C5_ExactlyFFrameFiles ==
    /\ RunFiles \subseteq ExpectedFrameFiles(ExpectedNumFrames)
    /\ (pc \in {"video", "cleanup"} /\ interrupt = "none" /\ FailedTasks = {})
          => /\ RunFiles = ExpectedFrameFiles(ExpectedNumFrames)
             /\ \A f \in RunFiles : fs.files[f].state = "complete"

\* An uninterrupted run of three frames or more, none failed, at the video step.
C5_Witness ==
    /\ pc = "video"
    /\ interrupt = "none"
    /\ FailedTasks = {}
    /\ ExpectedNumFrames >= 3
    /\ Cardinality(RunFiles) = ExpectedNumFrames

C7_NoPartialFileAfterInterrupt ==
    (pc = "raised" /\ exc = "KeyboardInterrupt") =>
        /\ \A f \in DOMAIN fs.files : fs.files[f].state = "complete"
        /\ StatesOf(futures, {"saving"}) = {}

\* The interrupt came while a frame file was open; the function has returned.
C7_Witness ==
    /\ pc = "raised"
    /\ exc = "KeyboardInterrupt"
    /\ interrupt = "wait"
    /\ \E k \in DOMAIN futures :
          /\ at_interrupt.futures[k].state = "saving"
          /\ at_interrupt.files[FramePath(job, k - 1)].state = "partial"
          /\ fs.files[FramePath(job, k - 1)].state = "complete"

\* The job has a configuration error: an unsupported easing, resampling or
\* direction name, or fewer than two usable images.
ConfigurationError ==
    \/ job.easing \notin EasingNames
    \/ job.resampling \notin RESAMPLING_FUNCTIONS
    \/ job.direction \notin Directions
    \/ Len(ReadImageList(job.image_paths)) < 2

\* C8: a job with a configuration error is refused before any rendering
\* work: the temp directory is not created, the pyramid is not built, no
\* frame task is submitted and no frame file is written, and the function
\* does not end normally.
C8_ConfigErrorsBeforeRendering ==
    ConfigurationError =>
        /\ ~run.made_tmp_dir
        /\ ~run.pyramid_built
        /\ futures = <<>>
        /\ RunFiles = {}
        /\ pc # "done"

----------------------------------------------------------------------------
(* PyramidSpec: the size resolution, the ordering of the images and the two *)
(* passes that build the zoom pyramid (lines 303-364), step by step, on    *)
(* images described by their size and by the input images pasted into them.*)

\* The input images are 2..MaxSide pixels wide and high.
MaxSide == 5
\* 2..MaxPyramidImages input images.
MaxPyramidImages == 3

Min(a, b) == IF a <= b THEN a ELSE b

\* round() of Python 3: to the nearest integer, a half to the even one.
round(r) ==
    LET f == r[1] \div r[2]
        twice == 2 * (r[1] - f * r[2])
    IN  IF twice < r[2] THEN f
        ELSE IF twice > r[2] THEN f + 1
        ELSE IF f % 2 = 0 THEN f ELSE f + 1

get_px_or_fraction_strict(value, reference_value) ==
    IF RLt(value, ROne)
    THEN int(RMul(RInt(reference_value), value))
    ELSE int(value)

get_px_or_fraction(value, reference_value) ==
    IF RLe(value, ROne)
    THEN int(RMul(RInt(reference_value), value))
    ELSE int(value)

\* An image: its size and the input images pasted into it, outermost first.
LoadedImage(k, size) == [width |-> size[1], height |-> size[2], parts |-> <<k>>]

\* Image.resize(size, resampling_func): a new image of that size.
resize(image, size) == [image EXCEPT !.width = size[1], !.height = size[2]]

\* Image.crop(box) of Pillow: the box is rounded to integers; a box whose right
\* (lower) edge lies before its left (upper) edge raises ValueError in the
\* builds of Pillow that check it and is taken by absolute size in the others.
crop(image, box, pillow_checks_box) ==
    IF pillow_checks_box /\ (RLt(box[3], box[1]) \/ RLt(box[4], box[2]))
    THEN [exc |-> "ValueError", image |-> image]
    ELSE [exc |-> "none",
          image |-> [image EXCEPT
                        !.width = Abs(round(box[3]) - round(box[1])),
                        !.height = Abs(round(box[4]) - round(box[2]))]]

\* Image.paste(inner, position): in place; what falls outside is clipped.
paste(image, inner) == [image EXCEPT !.parts = @ \o inner.parts]

\* zoom_crop(image, zoom): scale up by zoom, then crop the centre back.
zoom_crop(image, zoom) ==
    LET zoom_size == <<int(RMul(RInt(image.width), zoom)),
                       int(RMul(RInt(image.height), zoom))>>
        crop_box == <<Rat(zoom_size[1] - image.width, 2),
                      Rat(zoom_size[2] - image.height, 2),
                      Rat(zoom_size[1] + image.width, 2),
                      Rat(zoom_size[2] + image.height, 2)>>
    IN  crop(resize(image, zoom_size), crop_box, FALSE).image

resize_scale_inverse(image, scale) ==
    resize(image, <<int(RDiv(RInt(image.width), scale)),
                    int(RDiv(RInt(image.height), scale))>>)

\* resize_scale(image, scale)
resize_scale(image, scale) ==
    resize(image, <<int(RMul(RInt(image.width), scale)),
                    int(RMul(RInt(image.height), scale))>>)

centre_offset_corner(image, inner_image) == <<0, 0>>

\* The position of the paste in the rescale pass:
\* (int((image.width - inner_image.width) / 2), int((... height ...) / 2)).
centre_offset(image, inner_image) ==
    <<int(Rat(image.width - inner_image.width, 2)),
      int(Rat(image.height - inner_image.height, 2))>>

\* list.reverse()
Reverse(seq) == [k \in 1..Len(seq) |-> seq[Len(seq) + 1 - k]]

\* The order of the images after lines 312-316.
images_reverse(imgs, direction, reverse_images) ==
    LET by_direction == IF direction \in {"out", "outin"} THEN Reverse(imgs) ELSE imgs
    IN  IF reverse_images THEN Reverse(by_direction) ELSE by_direction

OuterImageBeforePass(imgs, ordered, i) == ordered[i]

\* outer_image = images[i - 1] (Python index i is position i + 1).
OuterImage(imgs, ordered, i) == imgs[i]

ImageSizes == {<<w, h>> : w \in 2..MaxSide, h \in 2..MaxSide}

\* The sizes of the input images: all of one size, or the last one three times
\* as large as the others.
SizeLists ==
    UNION {{[k \in 1..n |-> size],
            [k \in 1..n |-> IF k = n THEN <<3 * size[1], 3 * size[2]>> ELSE size]} :
           n \in 2..MaxPyramidImages, size \in ImageSizes}

PyramidJobs ==
    [sizes : SizeLists,
     width : {ROne, Rat(5, 2)},
     height : {ROne, RHalf},
     margin : {RZero, Rat(1, 4), RHalf, ROne, RInt(2), Rat(5, 2)},
     zoom : Zooms,
     direction : {"in", "out"},
     reverse_images : BOOLEAN,
     pillow_checks_box : BOOLEAN]

PyramidInit ==
    /\ job \in PyramidJobs
    /\ samples = <<>>
    /\ other_job = <<>>
    /\ hashes = <<>>
    /\ pc = "sizes"
    /\ exc = "none"
    /\ images = [k \in 1..Len(job.sizes) |-> LoadedImage(k - 1, job.sizes[k])]
    /\ fs = [dirs |-> {}, files |-> <<>>]
    /\ futures = <<>>
    /\ run = [width |-> 0, height |-> 0, margin |-> 0, resolutions |-> 0,
              ordered |-> <<>>, i |-> 0, outer_read |-> <<>>, inner_boxes |-> <<>>,
              blend_pastes |-> <<>>, rescale_pastes |-> <<>>,
              images_resized |-> <<>>, buffers |-> <<>>]
    /\ interrupt = "none"
    /\ at_interrupt = <<>>
    /\ image_paths = <<>>

pyramidFixed ==
    <<job, samples, other_job, hashes, fs, futures, interrupt, at_interrupt, image_paths>>

\* Lines 303-305: width, height and margin become pixel counts.
ResolveSizes ==
    /\ pc = "sizes"
    /\ run' = [run EXCEPT
                  !.width = get_px_or_fraction(job.width, images[1].width),
                  !.height = get_px_or_fraction(job.height, images[1].height),
                  !.margin = get_px_or_fraction(job.margin,
                                 Min(images[1].width, images[1].height)),
                  !.resolutions = @ + 1]
    /\ pc' = "reverse"
    /\ UNCHANGED <<pyramidFixed, exc, images>>

\* Lines 312-316: the images are put in outer-to-inner order.
ReverseImages ==
    /\ pc = "reverse"
    /\ images' = images_reverse(images, job.direction, job.reverse_images)
    /\ run' = [run EXCEPT !.ordered = images', !.i = 1]
    /\ pc' = "blend"
    /\ UNCHANGED <<pyramidFixed, exc>>

\* Lines 320-334, one round of the loop: images[i] becomes the zoom-crop of
\* images[i - 1] with the margin-cropped images[i] pasted into it.
BlendStep ==
    /\ pc = "blend"
    /\ run.i <= Len(images) - 1
    /\ LET i == run.i
           margin == run.margin
           inner_image == images[i + 1]
           outer_image == OuterImage(images, run.ordered, i)
           box == <<RInt(margin), RInt(margin),
                    RInt(inner_image.width - margin),
                    RInt(inner_image.height - margin)>>
           cropped == crop(inner_image, box, job.pillow_checks_box)
           zoomed == zoom_crop(outer_image, job.zoom)
           image == paste(zoomed, cropped.image)
       IN  IF cropped.exc # "none"
           THEN /\ pc' = "raised"
                /\ exc' = cropped.exc
                /\ UNCHANGED <<images, run>>
           ELSE /\ images' = [images EXCEPT ![i + 1] = image]
                /\ run' = [run EXCEPT
                              !.i = i + 1,
                              !.outer_read = Append(@, outer_image),
                              !.blend_pastes = Append(@,
                                  [i |-> i, image |-> zoomed, inner_image |-> cropped.image,
                                   at |-> <<margin, margin>>]),
                              !.inner_boxes = Append(@, <<margin, margin,
                                                  inner_image.width - margin,
                                                  inner_image.height - margin>>)]
                /\ UNCHANGED <<pc, exc>>
    /\ UNCHANGED pyramidFixed

\* Line 340: every composite is scaled up by zoom into a new image; the list
\* images_resized holds references to these buffers.
ResizeImages ==
    /\ pc = "blend"
    /\ run.i > Len(images) - 1
    /\ run' = [run EXCEPT
                  !.buffers = [k \in 1..Len(images) |-> resize_scale(images[k], job.zoom)],
                  !.images_resized = [k \in 1..Len(images) |-> k],
                  !.i = Len(images) - 1]
    /\ pc' = "rescale"
    /\ UNCHANGED <<pyramidFixed, exc, images>>

\* Lines 341-358, one round of the loop: the buffer at i is scaled back down
\* and pasted into the buffer at i - 1, which is then also stored at i.
RescaleStep ==
    /\ pc = "rescale"
    /\ run.i >= 1
    /\ LET i == run.i
           inner_image == resize_scale(run.buffers[run.images_resized[i + 1]],
                                       RDiv(ROne, job.zoom))
           image == run.images_resized[i]
       IN  run' = [run EXCEPT
                      !.buffers[image] = paste(@, inner_image),
                      !.images_resized[i + 1] = image,
                      !.rescale_pastes = Append(@,
                          [i |-> i, image |-> run.buffers[image],
                           inner_image |-> inner_image,
                           source |-> run.images_resized[i + 1],
                           at |-> centre_offset(run.buffers[image], inner_image)]),
                      !.i = i - 1]
    /\ UNCHANGED <<pyramidFixed, pc, exc, images>>

\* Line 364: images = images_resized; the pyramid is ready for the frames.
PyramidBuilt ==
    /\ pc = "rescale"
    /\ run.i = 0
    /\ images' = [k \in 1..Len(images) |-> run.buffers[run.images_resized[k]]]
    /\ pc' = "frames"
    /\ UNCHANGED <<pyramidFixed, exc, run>>

PyramidNext ==
    \/ ResolveSizes
    \/ ReverseImages
    \/ BlendStep
    \/ ResizeImages
    \/ RescaleStep
    \/ PyramidBuilt

PyramidSpec == PyramidInit /\ [][PyramidNext]_vars

----------------------------------------------------------------------------
(* The claims about the sizes and the pyramid, checked under PyramidSpec.   *)

\* The ordered images the blend pass crops the margin off: all but the first.
MarginCropped == 2..Len(run.ordered)
SmallerSide(image) == Min(image.width, image.height)
DegenerateBox(box) == box[3] <= box[1] \/ box[4] <= box[2]

\* The resolved margin is not strictly smaller than half of the smaller
\* dimension of some margin-cropped image.
MarginTooLarge ==
    \E k \in MarginCropped : 2 * run.margin >= SmallerSide(run.ordered[k])

\* C13: when the resolved margin is not strictly smaller than half of the
\* smaller dimension of a margin-cropped image, the blend pass makes no
\* degenerate (empty or negative-size) crop and an error is raised before the
\* pyramid is handed to the frames.
C13_MarginChecked ==
    /\ \A i \in DOMAIN run.inner_boxes : ~DegenerateBox(run.inner_boxes[i])
    /\ MarginTooLarge => pc # "frames"

\* A value >= 0 truncated to an integer: the n with n <= value < n + 1.
Truncated(value) ==
    CHOOSE n \in 0..value[1] :
        n * value[2] <= value[1] /\ value[1] < (n + 1) * value[2]

\* A value > 1 is that many pixels, a value <= 1 that fraction of the reference.
PixelsOf(value, reference) ==
    IF value[1] > value[2]
    THEN Truncated(value)
    ELSE Truncated(<<value[1] * reference, value[2]>>)

\* C14: width, height and margin are resolved exactly once, before the
\* pyramid is built, to the truncated pixel count or the truncated fraction
\* of the first input image's width, height and smaller dimension; the blend
\* pass crops by the resolved margin.
C14_SizesResolvedOnce ==
    /\ pc = "sizes" => (run.resolutions = 0 /\ run.inner_boxes = <<>>)
    /\ pc # "sizes" =>
          /\ run.resolutions = 1
          /\ run.width = PixelsOf(job.width, job.sizes[1][1])
          /\ run.height = PixelsOf(job.height, job.sizes[1][2])
          /\ run.margin = PixelsOf(job.margin, Min(job.sizes[1][1], job.sizes[1][2]))
    /\ \A i \in DOMAIN run.inner_boxes :
          run.inner_boxes[i][1] =
              PixelsOf(job.margin, Min(job.sizes[1][1], job.sizes[1][2]))

\* The pyramid is built for images given in reverse order, the first input
\* image 5 x 5 and the last 15 x 15, with a pixel width, a fractional height
\* and a fractional margin that all truncate.
C14_Witness ==
    /\ pc = "frames"
    /\ job.direction = "out" /\ ~job.reverse_images
    /\ job.sizes[1] = <<5, 5>>
    /\ run.ordered[1].width = 15
    /\ job.width = Rat(5, 2) /\ run.width = 2
    /\ job.height = RHalf /\ run.height = 2
    /\ job.margin = Rat(1, 4) /\ run.margin = 1

MarginBelowHalf ==
    \A k \in 1..Len(run.ordered) : 2 * run.margin < SmallerSide(run.ordered[k])
EqualSizes == \A k \in 1..Len(job.sizes) : job.sizes[k] = job.sizes[1]

InputsUpTo(n) == [k \in 1..n |-> run.ordered[k].parts[1]]

\* C19 as stated: the outer image read at every step of the blend pass is the
\* unmodified image of the ordered list (for step i >= 2, not the composite
\* written at step i - 1).
C19_OuterIsOriginal ==
    \A i \in DOMAIN run.outer_read : run.outer_read[i] = run.ordered[i]

\* C19 amended: step 1 reads the unmodified first image; for i >= 2 the outer
\* image read at step i is the composite written at step i - 1 (it holds the
\* input images 0..i-1); the inner image is the original images[i], so the new
\* images[i] holds the input images 0..i.
C19_OuterIsPreviousComposite ==
    /\ \A i \in DOMAIN run.outer_read :
          /\ i = 1 => run.outer_read[i] = run.ordered[1]
          /\ run.outer_read[i].parts = InputsUpTo(i)
    /\ pc \in {"blend", "rescale"} =>
          \A i \in DOMAIN run.outer_read :
              /\ i >= 2 => run.outer_read[i] = images[i]
              /\ images[i + 1].parts = InputsUpTo(i + 1)

\* The blend pass has run over three images or more.
C19_Witness ==
    /\ pc = "rescale"
    /\ Len(run.outer_read) >= 2
    /\ run.outer_read[2].parts = InputsUpTo(2)

\* The input image at the Python index j of the ordered list.
Level(j) == run.ordered[j + 1].parts[1]
PartsOf(image) == {image.parts[k] : k \in DOMAIN image.parts}

\* The pasted image lies inside the image it is pasted into, and the border
\* left around it is the same on opposite sides, up to the pixel that int() drops.
Centred(p) ==
    /\ p.at[1] >= 0 /\ p.at[2] >= 0
    /\ p.at[1] + p.inner_image.width <= p.image.width
    /\ p.at[2] + p.inner_image.height <= p.image.height
    /\ (p.image.width - p.inner_image.width) - 2 * p.at[1] \in {0, 1}
    /\ (p.image.height - p.inner_image.height) - 2 * p.at[2] \in {0, 1}

\* C21: in the rescale pass (i = N-1 down to 1) the image pasted at step i
\* into the rescaled level i-1 is the rescaled level i, which already holds
\* every deeper level i+1..N-1, scaled down by 1/zoom and placed at the
\* centre; after the pass every pyramid[i], i >= 1, holds every level j >= i,
\* and the pyramid has N entries.
C21_RescalePassNests ==
    LET N == Len(job.sizes)
    IN  /\ \A s \in DOMAIN run.rescale_pastes :
              LET p == run.rescale_pastes[s]
              IN  /\ p.i = N - s
                  /\ p.source = p.i + 1
                  /\ p.image.parts = InputsUpTo(p.i)
                  /\ \A j \in p.i..(N - 1) : Level(j) \in PartsOf(p.inner_image)
                  /\ Centred(p)
        /\ pc = "frames" =>
              /\ Len(images) = N
              /\ \A i \in 1..(N - 1) :
                    \A j \in i..(N - 1) : Level(j) \in PartsOf(images[i + 1])

\* A pyramid of three images, the rescaled levels 5 pixels wider than the
\* images pasted back into them.
C21_Witness ==
    /\ pc = "frames"
    /\ Len(run.rescale_pastes) = 2
    /\ \A s \in 1..2 :
          run.rescale_pastes[s].image.width = run.rescale_pastes[s].inner_image.width + 5

\* C22: in the blend pass, for every adjacent pair of the image list, the
\* margin-cropped inner image pasted at (margin, margin) lies entirely inside
\* the zoom-cropped outer image and is centred in it: the border left around
\* it is exactly `margin` pixels on all four sides, also when the input
\* images have different sizes (for a margin below half of the smaller
\* dimension of every image).
C22_InnerCentredInOuter ==
    MarginBelowHalf =>
    \A s \in DOMAIN run.blend_pastes :
        LET p == run.blend_pastes[s]
        IN  /\ p.at = <<run.margin, run.margin>>
            /\ p.at[1] + p.inner_image.width <= p.image.width
            /\ p.at[2] + p.inner_image.height <= p.image.height
            /\ p.image.width - (p.at[1] + p.inner_image.width) = run.margin
            /\ p.image.height - (p.at[2] + p.inner_image.height) = run.margin

\* C26: scaling a dimension up by zoom and back down by 1/zoom returns it
\* (int(int(w * zoom) / zoom) = w), so the image pasted back at a step of the
\* rescale pass has exactly the size of its home image, the composite at
\* that index, and sits exactly centred in the rescaled outer level.
C26_ScaleRoundTrip ==
    pc = "rescale" =>
        \A s \in DOMAIN run.rescale_pastes :
            LET p == run.rescale_pastes[s]
                home == images[p.i + 1]
            IN  /\ p.inner_image.width = home.width
                /\ p.inner_image.height = home.height
                /\ 2 * p.at[1] = p.image.width - p.inner_image.width
                /\ 2 * p.at[2] = p.image.height - p.inner_image.height

\* ImageWrapper.zoom_crop of helpers.py: as zoom_crop, but the four edges of
\* the crop box are truncated with int().
ImageWrapper_zoom_crop(image, zoom) ==
    LET zoom_size == <<int(RMul(RInt(image.width), zoom)),
                       int(RMul(RInt(image.height), zoom))>>
        crop_box == <<RInt(int(Rat(zoom_size[1] - image.width, 2))),
                      RInt(int(Rat(zoom_size[2] - image.height, 2))),
                      RInt(int(Rat(zoom_size[1] + image.width, 2))),
                      RInt(int(Rat(zoom_size[2] + image.height, 2)))>>
    IN  crop(resize(image, zoom_size), crop_box, FALSE).image

\* The first loop of helpers.blend_images from the Python index i on, over a
\* heap of image objects (st.buffers) and the list of references st.images.
RECURSIVE blend_images_margins(_, _, _, _, _)
blend_images_margins(st, margin, zoom, pillow_checks_box, i) ==
    IF i > Len(st.images) - 1 THEN st
    ELSE LET inner_image == st.buffers[st.images[i + 1]]
             outer_image == st.buffers[st.images[i]]
             cropped == crop(inner_image,
                             <<RInt(margin), RInt(margin),
                               RInt(inner_image.width - margin),
                               RInt(inner_image.height - margin)>>,
                             pillow_checks_box)
             image == paste(ImageWrapper_zoom_crop(outer_image, zoom), cropped.image)
         IN  IF cropped.exc # "none" THEN [st EXCEPT !.exc = cropped.exc]
             ELSE blend_images_margins(
                      [st EXCEPT !.buffers = Append(@, image),
                                 !.images[i + 1] = Len(st.buffers) + 1],
                      margin, zoom, pillow_checks_box, i + 1)

\* The second loop of helpers.blend_images from the Python index i down:
\* images[i - 1] is scaled up into a new image, the image scaled up at the
\* step before is scaled back down and pasted into it, and it is stored at i.
RECURSIVE blend_images_rescale(_, _, _, _)
blend_images_rescale(st, image_resized, zoom, i) ==
    IF i < 1 THEN st
    ELSE LET inner_image == resize_scale(st.buffers[image_resized], RDiv(ROne, zoom))
             next_image_resized ==
                 paste(resize_scale(st.buffers[st.images[i]], zoom), inner_image)
             ref == Len(st.buffers) + 1
         IN  blend_images_rescale(
                 [st EXCEPT !.buffers = Append(@, next_image_resized),
                            !.images[i + 1] = ref],
                 ref, zoom, i - 1)

\* helpers.blend_images(images, margin, zoom, resampling_func)
blend_images(imgs, margin, zoom, pillow_checks_box) ==
    LET start == [exc |-> "none", buffers |-> imgs,
                  images |-> [k \in 1..Len(imgs) |-> k]]
        blended == blend_images_margins(start, margin, zoom, pillow_checks_box, 1)
        last == blended.buffers[blended.images[Len(imgs)]]
    IN  IF blended.exc # "none" THEN blended
        ELSE blend_images_rescale(
                 [blended EXCEPT !.buffers = Append(@, resize_scale(last, zoom))],
                 Len(blended.buffers) + 1, zoom, Len(imgs) - 1)

PairwiseDistinct(refs) ==
    \A k1, k2 \in DOMAIN refs : k1 # k2 => refs[k1] # refs[k2]

\* C27: the two-pass builder of zoom_video_composer.py and helpers.blend_images
\* return, for the same ordered images, margin and zoom, pyramids of the same
\* length in which every pyramid[k] has the same size and the same nested
\* content, and in each of which the N entries are pairwise distinct buffers.
C27_BuildersEquivalent ==
    pc = "frames" =>
        LET built == blend_images(run.ordered, run.margin, job.zoom,
                                  job.pillow_checks_box)
        IN  /\ built.exc = "none"
            /\ Len(built.images) = Len(images)
            /\ \A k \in DOMAIN images : built.buffers[built.images[k]] = images[k]
            /\ PairwiseDistinct(built.images)
            /\ PairwiseDistinct(run.images_resized)

----------------------------------------------------------------------------
(* RenderSpec: the pyramid is built as in PyramidSpec and the frames are    *)
(* then rendered from it by the worker threads, process_frame taken one     *)
(* image operation at a time.  run.buffers is the heap of image objects:    *)
(* the pyramid's buffers first, then the images the tasks create.           *)

\* local_zoom = zoom ** exponent as a number, for a whole exponent >= 0.
LocalZoom(p) == RPow(p.base, int(p.exp))

\* The frames of the job all fall on whole zoom positions (so that
\* zoom ** exponent is a rational number) and none of them raises.
WholeZoomPositions(j) ==
    \A i \in 0..(NumFrames(j) - 1) :
        LET s == process_frame(Closure(j, Len(j.sizes)), i)
        IN  s.exc = "none" /\ s.L[2] = 1

RenderJobs ==
    {j \in [sizes : {[k \in 1..n |-> size] :
                        n \in 2..MaxPyramidImages, size \in {<<4, 4>>, <<3, 5>>}},
             width : {ROne},
             height : {ROne, RHalf},
             margin : {Rat(1, 4)},
             zoom : Zooms,
             direction : {"in", "out", "inout"},
             easing : {"linear"},
             duration : {RInt(2), RInt(3), RInt(4)},
             fps : {1},
             threads : {1, 2},
             cpu_count : {2},
             reverse_images : {FALSE},
             pillow_checks_box : {FALSE}] : WholeZoomPositions(j)}

RenderInit ==
    /\ job \in RenderJobs
    /\ samples = <<>>
    /\ other_job = <<>>
    /\ hashes = <<>>
    /\ pc = "sizes"
    /\ exc = "none"
    /\ images = [k \in 1..Len(job.sizes) |-> LoadedImage(k - 1, job.sizes[k])]
    /\ fs = [dirs |-> {}, files |-> <<>>]
    /\ futures = <<>>
    /\ run = [width |-> 0, height |-> 0, margin |-> 0, resolutions |-> 0,
              ordered |-> <<>>, i |-> 0, outer_read |-> <<>>, inner_boxes |-> <<>>,
              blend_pastes |-> <<>>, rescale_pastes |-> <<>>,
              images_resized |-> <<>>, buffers |-> <<>>]
    /\ interrupt = "none"
    /\ at_interrupt = <<>>
    /\ image_paths = <<>>

renderFixed == <<job, samples, other_job, hashes, exc, images, interrupt, at_interrupt, image_paths>>

\* A frame task: its state and the heap reference its variable `frame` holds.
FrameTask(state, frame) == [state |-> state, frame |-> frame]

\* Line 411: every frame is submitted to the pool.
SubmitFrames ==
    /\ pc = "frames"
    /\ futures' = [k \in 1..NumFrames(job) |-> FrameTask("pending", 0)]
    /\ pc' = "render"
    /\ UNCHANGED <<renderFixed, fs, run>>

\* Lines 368-398: a worker takes the oldest queued frame; process_frame
\* computes the zoom position and binds `frame` to images[0] or
\* images[current_image_idx], a reference to a buffer of the pyramid.
PickImage(k) ==
    /\ pc = "render"
    /\ k \in DOMAIN futures
    /\ futures[k].state = "pending"
    /\ \A k2 \in StatesOf(futures, {"pending"}) : k <= k2
    /\ Cardinality(StatesOf(futures, {"picked", "cropped", "resized"})) < n_jobs(job)
    /\ LET s == process_frame(Closure(job, Len(run.images_resized)), k - 1)
       IN  futures' = [futures EXCEPT
                          ![k] = FrameTask("picked", run.images_resized[s.layer + 1])]
    /\ UNCHANGED <<renderFixed, pc, fs, run>>

\* image.resize(zoom_size).crop(crop_box) of zoom_crop: Image.resize and
\* Image.crop return new images, the image they are called on is left alone.
ImageZoomCrop(buffers, frame, zoom) ==
    Append(buffers, zoom_crop(buffers[frame], zoom))

\* Lines 397-401: frame = zoom_crop(frame, local_zoom), unless current_zoom_log
\* is 0.0, where frame stays images[0].
ZoomCropFrame(k) ==
    /\ pc = "render"
    /\ k \in DOMAIN futures
    /\ futures[k].state = "picked"
    /\ LET s == process_frame(Closure(job, Len(run.images_resized)), k - 1)
       IN  IF s.cropped
           THEN /\ run' = [run EXCEPT !.buffers =
                               ImageZoomCrop(@, futures[k].frame, LocalZoom(s.local_zoom))]
                /\ futures' = [futures EXCEPT
                                  ![k] = FrameTask("cropped", Len(run'.buffers))]
           ELSE /\ run' = run
                /\ futures' = [futures EXCEPT ![k].state = "cropped"]
    /\ UNCHANGED <<renderFixed, pc, fs>>

ImageResizeInPlace(buffers, frame, size) ==
    [buffers EXCEPT ![frame] = resize(@, size)]

\* Image.resize(size, resampling_func) returns a new image.
ImageResize(buffers, frame, size) ==
    Append(buffers, resize(buffers[frame], size))

\* Line 403: frame = frame.resize((width, height), resampling_func).
ResizeFrame(k) ==
    /\ pc = "render"
    /\ k \in DOMAIN futures
    /\ futures[k].state = "cropped"
    /\ run' = [run EXCEPT !.buffers =
                  ImageResize(@, futures[k].frame, <<run.width, run.height>>)]
    /\ futures' = [futures EXCEPT ![k] = FrameTask("resized", Len(run'.buffers))]
    /\ UNCHANGED <<renderFixed, pc, fs>>

\* Lines 404-405: frame.save(frame_path) writes the task's own frame file.
SaveFrame(k) ==
    /\ pc = "render"
    /\ k \in DOMAIN futures
    /\ futures[k].state = "resized"
    /\ fs' = [fs EXCEPT !.files =
                 [f \in DOMAIN fs.files \cup {FrameName(k - 1)} |->
                     IF f = FrameName(k - 1) THEN run.buffers[futures[k].frame]
                     ELSE fs.files[f]]]
    /\ futures' = [futures EXCEPT ![k].state = "finished"]
    /\ UNCHANGED <<renderFixed, pc, run>>

RenderNext ==
    \/ ResolveSizes
    \/ ReverseImages
    \/ BlendStep
    \/ ResizeImages
    \/ RescaleStep
    \/ PyramidBuilt
    \/ SubmitFrames
    \/ \E k \in DOMAIN futures : PickImage(k)
    \/ \E k \in DOMAIN futures : ZoomCropFrame(k)
    \/ \E k \in DOMAIN futures : ResizeFrame(k)
    \/ \E k \in DOMAIN futures : SaveFrame(k)

RenderSpec == RenderInit /\ [][RenderNext]_vars

\* The pyramid as the tasks see it: images[k] through the references.
PyramidSeen == [k \in DOMAIN run.images_resized |-> run.buffers[run.images_resized[k]]]

\* C23: after the pyramid is built no frame task changes a buffer of the
\* pyramid or the list: at every moment of every interleaving the pyramid
\* the tasks see is the pyramid at the end of construction (kept in `images`
\* by line 364), the tasks write only to images they created, and each frame
\* file holds the task's own resized frame.
C23_PyramidImmutable ==
    pc = "render" =>
        /\ PyramidSeen = images
        /\ \A k \in DOMAIN futures :
              /\ futures[k].state = "resized" => futures[k].frame > Len(images)
              /\ futures[k].state = "finished" =>
                    /\ FrameName(k - 1) \in DOMAIN fs.files
                    /\ fs.files[FrameName(k - 1)].width = run.width
                    /\ fs.files[FrameName(k - 1)].height = run.height

\* Two workers have rendered three frames or more, one of them images[0]
\* itself (zoom position 0), and another task is between crop and resize
\* while a frame is being saved.
C23_Witness ==
    /\ pc = "render"
    /\ n_jobs(job) = 2
    /\ Len(futures) >= 3
    /\ \E k \in DOMAIN futures :
          /\ futures[k].state = "cropped"
          /\ futures[k].frame = run.images_resized[1]
    /\ \E k \in DOMAIN futures : futures[k].state = "resized"
    /\ \E k \in DOMAIN futures : futures[k].state = "finished"

----------------------------------------------------------------------------
(* PathSpec: the enumeration of the input paths and the reading of the      *)
(* images, in zoom_video_composer.py and in the program built on helpers.py.*)

\* Up to MaxInputPaths input paths.
MaxInputPaths == 3

InputPaths == {"a.png", "B.JPG", "frames", "pipe"}

\* os.listdir(path) returns the names in a directory in arbitrary order.
Listings ==
    {l \in [1..Cardinality(Children) -> Children] :
        \A k1, k2 \in DOMAIN l : k1 # k2 => l[k1] # l[k2]}

PathJobs ==
    [program : {"cli", "helpers"},
     image_paths : UNION {[1..n -> InputPaths] : n \in 1..MaxInputPaths},
     listdir : Listings]

PathInit ==
    /\ job \in PathJobs
    /\ samples = <<>>
    /\ other_job = <<>>
    /\ hashes = <<>>
    /\ pc = "paths"
    /\ exc = "none"
    /\ images = <<>>
    /\ fs = [dirs |-> {}, files |-> <<>>]
    /\ futures = <<>>
    /\ run = <<>>
    /\ interrupt = "none"
    /\ at_interrupt = <<>>
    /\ image_paths = <<>>

PathNext == EnumeratePaths \/ ReadImages

PathSpec == PathInit /\ [][PathNext]_vars

\* What the input paths stand for: a file for itself, the directory for its
\* children in lexicographic order ("1.png" < "10.png" < "2.png").
RECURSIVE ExpectedPaths(_)
ExpectedPaths(paths) ==
    IF paths = <<>> THEN <<>>
    ELSE (IF Head(paths) = "frames"
          THEN <<"frames/1.png", "frames/10.png", "frames/2.png">>
          ELSE <<Head(paths)>>) \o ExpectedPaths(Tail(paths))

\* C15: every input path that is a file contributes itself and every
\* directory its direct children in lexicographic order, in the order of the
\* input paths; an input path that is neither makes the program fail with a
\* configuration error instead of being dropped.
C15_PathsEnumerated ==
    pc # "paths" =>
        IF \E k \in DOMAIN job.image_paths : job.image_paths[k] = "pipe"
        THEN pc = "raised" /\ exc = "ValueError: path"
        ELSE image_paths = ExpectedPaths(job.image_paths)

----------------------------------------------------------------------------
(* EaseSpec: an easing function of zoom_video_composer.py or of helpers.py, *)
(* applied to the points 0, 1/n, 2/n, ..., 1.  The sine easings and powers  *)
(* that are not natural numbers are left out of the model.                 *)

\* The powers 1..MaxPower of the power easings.
MaxPower == 3
\* The grids of n + 1 points, n in 1..MaxGrid.
MaxGrid == 8

\* get_ease_pow_in(power)(x)
get_ease_pow_in(power, x) == RPow(x, power)

\* get_ease_pow_out(power)(x)
get_ease_pow_out(power, x) == RSub(ROne, RPow(RSub(ROne, x), power))

\* get_ease_pow_in_out(power)(x)
get_ease_pow_in_out(power, x) ==
    IF RLt(x, RHalf)
    THEN RMul(RPow(RInt(2), power - 1), RPow(x, power))
    ELSE RSub(ROne, RDiv(RPow(RAdd(RMul(RInt(-2), x), RInt(2)), power), RInt(2)))

\* The branch x < ease_duration of linear_ease_in_out (ease_duration # 0):
\* (x * ease_duration_scale) ** 2 / ease_duration_scale / 2
linear_ease_in(ease_duration, x) ==
    LET ease_duration_scale == RDiv(ROne, ease_duration)
    IN  RDiv(RDiv(RPow(RMul(x, ease_duration_scale), 2), ease_duration_scale),
             RInt(2))

\* The branch x > 1 - ease_duration of linear_ease_in_out (ease_duration # 0):
\* 1 - ((1 - x) * ease_duration_scale) ** 2 / ease_duration_scale / 2
linear_ease_out(ease_duration, x) ==
    LET ease_duration_scale == RDiv(ROne, ease_duration)
    IN  RSub(ROne,
             RDiv(RDiv(RPow(RMul(RSub(ROne, x), ease_duration_scale), 2),
                       ease_duration_scale), RInt(2)))

\* get_linear_with_in_out_ease(ease_duration)(x); a division by zero raises
\* ZeroDivisionError.
get_linear_with_in_out_ease(ease_duration, x) ==
    IF ease_duration = RZero THEN Raise("ZeroDivisionError")
    ELSE IF RLt(x, ease_duration)
    THEN Ok(linear_ease_in(ease_duration, x))
    ELSE IF RLt(RSub(ROne, ease_duration), x)
    THEN Ok(linear_ease_out(ease_duration, x))
    ELSE IF RSub(ROne, RMul(RInt(2), ease_duration)) = RZero
    THEN Raise("ZeroDivisionError")
    ELSE Ok(RAdd(RDiv(RMul(RSub(x, ease_duration), RSub(ROne, ease_duration)),
                      RSub(ROne, RMul(RInt(2), ease_duration))),
                 RDiv(ease_duration, RInt(2))))

HelpersEasingNames ==
    {"linear", "linearWithInOutEase", "easeInQuad", "easeOutQuad", "easeInOutQuad",
     "easeInCubic", "easeOutCubic", "easeInOutCubic",
     "easeInPow", "easeOutPow", "easeInOutPow"}

\* get_easing_function(easing, power, ease_duration)(x) of helpers.py
get_easing_function(easing, power, ease_duration, x) ==
    CASE easing = "linear" -> Ok(x)
      [] easing = "linearWithInOutEase" -> get_linear_with_in_out_ease(ease_duration, x)
      [] easing = "easeInQuad" -> Ok(get_ease_pow_in(2, x))
      [] easing = "easeOutQuad" -> Ok(get_ease_pow_out(2, x))
      [] easing = "easeInOutQuad" -> Ok(get_ease_pow_in_out(2, x))
      [] easing = "easeInCubic" -> Ok(get_ease_pow_in(3, x))
      [] easing = "easeOutCubic" -> Ok(get_ease_pow_out(3, x))
      [] easing = "easeInOutCubic" -> Ok(get_ease_pow_in_out(3, x))
      [] easing = "easeInPow" -> Ok(get_ease_pow_in(power, x))
      [] easing = "easeOutPow" -> Ok(get_ease_pow_out(power, x))
      [] easing = "easeInOutPow" -> Ok(get_ease_pow_in_out(power, x))
      [] OTHER -> Raise("ValueError")

EaseJobs ==
    [program : {"cli"}, easing : EasingNames, power : {1}, ease_duration : {Rat(1, 50)},
     n : 1..MaxGrid]
    \cup
    [program : {"helpers"}, easing : HelpersEasingNames, power : 1..MaxPower,
     ease_duration : {Rat(1, 50), Rat(1, 4), RHalf}, n : 1..MaxGrid]

EaseInit ==
    /\ job \in EaseJobs
    /\ samples = <<>>
    /\ other_job = <<>>
    /\ hashes = <<>>
    /\ NoRun

\* The easing function is applied to the next point k/n of the grid.
EasePoint ==
    /\ Len(samples) <= job.n
    /\ LET x == Rat(Len(samples), job.n)
           eased == IF job.program = "helpers"
                    THEN get_easing_function(job.easing, job.power,
                                             job.ease_duration, x)
                    ELSE Ok(EASING_FUNCTIONS(job.easing, x))
       IN  samples' = Append(samples, eased)
    /\ UNCHANGED <<job, other_job, hashes, runVars>>

EaseNext == EasePoint

EaseSpec == EaseInit /\ [][EaseNext]_vars

\* C18: every supported easing kind, for the given power or ease-duration,
\* satisfies ease(0) = 0 and ease(1) = 1, is defined and monotonic
\* non-decreasing on [0, 1], and maps [0, 1] into [0, 1].
C18_EasingMonotone ==
    /\ \A k \in DOMAIN samples :
          /\ samples[k].exc = "none"
          /\ RLe(RZero, samples[k].val) /\ RLe(samples[k].val, ROne)
    /\ Len(samples) >= 1 => samples[1].val = RZero
    /\ Len(samples) = job.n + 1 => samples[job.n + 1].val = ROne
    /\ \A k1, k2 \in DOMAIN samples :
          k1 <= k2 => RLe(samples[k1].val, samples[k2].val)

\* C28: for every ease-duration d with 0 < d <= 0.5 the easing
\* 'linearWithInOutEase' is defined at every progress x of [0, 1] (none of
\* its branches divides by zero) and is continuous where its branches meet:
\* its value at x = d is the limit d/2 of the ease-in branch, its value at
\* x = 1 - d the limit 1 - d/2 of the ease-out branch.
C28_LinearEaseDefined ==
    (/\ job.program = "helpers"
     /\ job.easing = "linearWithInOutEase"
     /\ RLt(RZero, job.ease_duration) /\ RLe(job.ease_duration, RHalf)
     /\ samples # <<>>) =>
        LET d == job.ease_duration
            at_d == get_linear_with_in_out_ease(d, d)
            at_1_d == get_linear_with_in_out_ease(d, RSub(ROne, d))
        IN  /\ \A k \in DOMAIN samples : samples[k].exc = "none"
            /\ at_d.exc = "none"
            /\ at_d.val = linear_ease_in(d, d)
            /\ at_1_d.exc = "none"
            /\ at_1_d.val = linear_ease_out(d, RSub(ROne, d))

====
